---- MODULE Spec2Model ----
(***************************************************************************)
(* InbetweenFace of the vector animation complex (VAC): a face that exists *)
(* over a time interval, bounded in space by animated cycles and in time   *)
(* by a set of before key faces and a set of after key faces.              *)
(*                                                                         *)
(* The model holds ONE inbetween face inside a complex with a fixed        *)
(* population of other cells.  A pointer to a cell is modelled by the      *)
(* cell's identity; a star is modelled by the set of cells whose star      *)
(* contains the face.                                                      *)
(***************************************************************************)
EXTENDS Integers, Sequences, FiniteSets, TLC

VARIABLES
    cycles_,             \* QList<AnimatedCycle> cycles_
    beforeFaces_,        \* QSet<KeyFace*> beforeFaces_
    afterFaces_,         \* QSet<KeyFace*> afterFaces_
    spatialStar,         \* cells c with  face \in c->spatialStar_
    temporalStarBefore,  \* cells c with  face \in c->temporalStarBefore_
    temporalStarAfter,   \* cells c with  face \in c->temporalStarAfter_
    last,                \* history: the last operation, its arguments and its steps
    stream,              \* the text save_ wrote, which the QTextStream constructor reads
    xml,                 \* the attributes write_ wrote, which the XmlStreamReader constructor reads
    registry,            \* identities of the live cells of the complex that loads
    loaded,              \* the face under construction by a load
    out                  \* the Triangles & out that triangulate_ fills

faceVars == <<cycles_, beforeFaces_, afterFaces_, spatialStar, temporalStarBefore,
              temporalStarAfter>>
ioVars == <<stream, xml, registry, loaded>>
vars == <<cycles_, beforeFaces_, afterFaces_, spatialStar, temporalStarBefore,
          temporalStarAfter, last, stream, xml, registry, loaded, out>>

-----------------------------------------------------------------------------
(* Bounds of the model *)

MaxCycles == 2
NumKeyFaces == 2
MaxTime == 2

-----------------------------------------------------------------------------
(* The complex: the cells other than the face *)

\* Identities of the key faces of the complex: 6, 12, ...
KeyFaceIds == {6 * k : k \in 1..NumKeyFaces}

\* Key edges and the time of each.  Edges 1 and 2 lie strictly inside the
\* face's interval, edge 3 at its start and edge 5 at its end.
KeyEdgeIds == {1, 2, 3, 5}
KeyEdgeTime == [e \in KeyEdgeIds |->
                  CASE e = 3 -> 0
                    [] e = 5 -> MaxTime
                    [] OTHER -> 1]

\* One inbetween edge, spanning the whole interval from edge 3 to edge 5.
InbetweenEdgeIds == {4}
EdgeBeforeCells == [e \in InbetweenEdgeIds |-> {3}]
EdgeAfterCells == [e \in InbetweenEdgeIds |-> {5}]

EdgeIds == KeyEdgeIds \cup InbetweenEdgeIds
CellIds == EdgeIds \cup KeyFaceIds

Times == 0..MaxTime

\* exists(time) of a key cell: at its own instant only; of an inbetween cell:
\* strictly between its before time and its after time.
EdgeExists(e, t) ==
    IF e \in KeyEdgeIds THEN KeyEdgeTime[e] = t ELSE 0 < t /\ t < MaxTime

\* InbetweenCell::exists(time) of the face
exists(t) == 0 < t /\ t < MaxTime

-----------------------------------------------------------------------------
(* AnimatedCycle: an ordered sequence of half-edge references *)

Halfedge(e, d) == [edge |-> e, side |-> d]

\* AnimatedCycle(): the invalid (placeholder) cycle
EmptyCycle == << >>

\* The cycles the operations draw their arguments from
CycleValues ==
    { EmptyCycle,
      << Halfedge(1, TRUE), Halfedge(2, TRUE) >>,
      << Halfedge(1, FALSE) >>,
      << Halfedge(4, TRUE) >>,
      << Halfedge(3, TRUE) >> }

Range(s) == {s[i] : i \in DOMAIN s}

\* AnimatedCycle::cells()
CycleCells(c) == {h.edge : h \in Range(c)}

\* AnimatedCycle::beforeCells() / afterCells()
CycleBeforeCells(c) ==
    UNION {EdgeBeforeCells[e] : e \in CycleCells(c) \cap InbetweenEdgeIds}
CycleAfterCells(c) ==
    UNION {EdgeAfterCells[e] : e \in CycleCells(c) \cap InbetweenEdgeIds}

-----------------------------------------------------------------------------
(* The face and the stars as one record, so that the steps of a handler   *)
(* can be composed and recorded.                                          *)

Self == [cycles |-> cycles_, beforeFaces |-> beforeFaces_, afterFaces |-> afterFaces_,
         spatialStar |-> spatialStar, temporalStarBefore |-> temporalStarBefore,
         temporalStarAfter |-> temporalStarAfter, notified |-> 0]

\* InbetweenFace::spatialBoundary
spatialBoundary(s) == UNION {CycleCells(s.cycles[i]) : i \in DOMAIN s.cycles}

\* beforeCells that leaves out the before faces
beforeCells_noFaces(s) ==
    UNION {CycleBeforeCells(s.cycles[i]) : i \in DOMAIN s.cycles}

\* InbetweenFace::beforeCells
beforeCells(s) ==
    s.beforeFaces \cup UNION {CycleBeforeCells(s.cycles[i]) : i \in DOMAIN s.cycles}

\* InbetweenFace::afterCells
afterCells(s) ==
    s.afterFaces \cup UNION {CycleAfterCells(s.cycles[i]) : i \in DOMAIN s.cycles}

\* Cell::addMeToTemporalStarAfterOf_(c) / addMeToTemporalStarBeforeOf_(c)
addMeToTemporalStarAfterOf_(s, c) ==
    [s EXCEPT !.temporalStarAfter = @ \cup {c}]
addMeToTemporalStarBeforeOf_(s, c) ==
    [s EXCEPT !.temporalStarBefore = @ \cup {c}]

\* Cell::removeMeFromTemporalStarAfterOf_(c) / removeMeFromTemporalStarBeforeOf_(c)
removeMeFromTemporalStarAfterOf_(s, c) ==
    [s EXCEPT !.temporalStarAfter = @ \ {c}]
removeMeFromTemporalStarBeforeOf_(s, c) ==
    [s EXCEPT !.temporalStarBefore = @ \ {c}]

\* Cell::addMeToStarOfBoundary_
addMeToStarOfBoundary_(s) ==
    [s EXCEPT !.spatialStar = @ \cup spatialBoundary(s),
              !.temporalStarAfter = @ \cup beforeCells(s),
              !.temporalStarBefore = @ \cup afterCells(s)]

\* Cell::removeMeFromStarOfBoundary_
removeMeFromStarOfBoundary_(s) ==
    [s EXCEPT !.spatialStar = @ \ spatialBoundary(s),
              !.temporalStarAfter = @ \ beforeCells(s),
              !.temporalStarBefore = @ \ afterCells(s)]

\* Cell::processGeometryChanged_: the geometry-changed notification
processGeometryChanged_(s) == [s EXCEPT !.notified = @ + 1]

\* One recorded step of a handler: the statement and the state after it
Step(name, s) == [stmt |-> name, s |-> s]

Final(tr) == tr[Len(tr)].s

-----------------------------------------------------------------------------
(* The handlers, each as the sequence of its statements *)

\* InbetweenFace(vac, cycles, beforeFaces, afterFaces)
ConstructSteps(cycles, beforeFaces, afterFaces) ==
    LET s0 == [cycles |-> cycles, beforeFaces |-> beforeFaces, afterFaces |-> afterFaces,
               spatialStar |-> {}, temporalStarBefore |-> {}, temporalStarAfter |-> {},
               notified |-> 0]
    IN  << Step("init", s0), Step("addMeToStarOfBoundary_", addMeToStarOfBoundary_(s0)) >>

\* addAnimatedCycle()
addAnimatedCycleSteps(s) ==
    << Step("append", [s EXCEPT !.cycles = Append(@, EmptyCycle)]) >>

\* setCycle(i, cycle); i counts from 0 in the code and from 1 here
setCycleSteps(s, i, cycle) ==
    LET s1 == removeMeFromStarOfBoundary_(s)
        s2 == [s1 EXCEPT !.cycles[i] = cycle]
        s3 == addMeToStarOfBoundary_(s2)
        s4 == processGeometryChanged_(s3)
    IN  << Step("removeMeFromStarOfBoundary_", s1), Step("assign", s2),
           Step("addMeToStarOfBoundary_", s3), Step("processGeometryChanged_", s4) >>

\* addAnimatedCycle(cycle)
addAnimatedCycleWithSteps(s, cycle) ==
    LET t1 == addAnimatedCycleSteps(s)
    IN  t1 \o setCycleSteps(Final(t1), Len(Final(t1).cycles), cycle)

\* A removal that takes out the first entry, whatever the index
RemoveAt_first(q, i) == Tail(q)

\* InbetweenFace::numAnimatedCycles and InbetweenFace::animatedCycle(i), i
\* counted from 0
numAnimatedCycles(s) == Len(s.cycles)
animatedCycle(s, i) == s.cycles[i + 1]

RemoveAt(q, i) == [k \in 1..(Len(q) - 1) |-> IF k < i THEN q[k] ELSE q[k + 1]]

\* removeCycle(i)
removeCycleSteps(s, i) ==
    LET s1 == removeMeFromStarOfBoundary_(s)
        s2 == [s1 EXCEPT !.cycles = RemoveAt(@, i)]
        s3 == addMeToStarOfBoundary_(s2)
        s4 == processGeometryChanged_(s3)
    IN  << Step("removeMeFromStarOfBoundary_", s1), Step("assign", s2),
           Step("addMeToStarOfBoundary_", s3), Step("processGeometryChanged_", s4) >>

\* setBeforeFaces with the set assigned before the face is deregistered
setBeforeFacesSteps_assignFirst(s, faces) ==
    LET s1 == [s EXCEPT !.beforeFaces = faces]
        s2 == removeMeFromStarOfBoundary_(s1)
        s3 == addMeToStarOfBoundary_(s2)
    IN  << Step("assign", s1), Step("removeMeFromStarOfBoundary_", s2),
           Step("addMeToStarOfBoundary_", s3) >>

\* setBeforeFaces(beforeFaces)
setBeforeFacesSteps(s, faces) ==
    LET s1 == removeMeFromStarOfBoundary_(s)
        s2 == [s1 EXCEPT !.beforeFaces = faces]
        s3 == addMeToStarOfBoundary_(s2)
    IN  << Step("removeMeFromStarOfBoundary_", s1), Step("assign", s2),
           Step("addMeToStarOfBoundary_", s3) >>

\* setAfterFaces(afterFaces)
setAfterFacesSteps(s, faces) ==
    LET s1 == removeMeFromStarOfBoundary_(s)
        s2 == [s1 EXCEPT !.afterFaces = faces]
        s3 == addMeToStarOfBoundary_(s2)
    IN  << Step("removeMeFromStarOfBoundary_", s1), Step("assign", s2),
           Step("addMeToStarOfBoundary_", s3) >>

\* addBeforeFace(beforeFace)
addBeforeFaceSteps(s, f) ==
    LET s1 == [s EXCEPT !.beforeFaces = @ \cup {f}]
    IN  << Step("assign", s1),
           Step("addMeToTemporalStarAfterOf_", addMeToTemporalStarAfterOf_(s1, f)) >>

\* addAfterFace that registers the face in the wrong temporal star
addAfterFaceSteps_wrongStar(s, f) ==
    LET s1 == [s EXCEPT !.afterFaces = @ \cup {f}]
    IN  << Step("assign", s1),
           Step("addMeToTemporalStarAfterOf_", addMeToTemporalStarAfterOf_(s1, f)) >>

\* addAfterFace(afterFace)
addAfterFaceSteps(s, f) ==
    LET s1 == [s EXCEPT !.afterFaces = @ \cup {f}]
    IN  << Step("assign", s1),
           Step("addMeToTemporalStarBeforeOf_", addMeToTemporalStarBeforeOf_(s1, f)) >>

\* removeBeforeFace that leaves the star of the removed face alone
removeBeforeFaceSteps_noStar(s, f) ==
    << Step("assign", [s EXCEPT !.beforeFaces = @ \ {f}]) >>

\* removeBeforeFace(beforeFace)
removeBeforeFaceSteps(s, f) ==
    LET s1 == [s EXCEPT !.beforeFaces = @ \ {f}]
    IN  << Step("assign", s1),
           Step("removeMeFromTemporalStarAfterOf_", removeMeFromTemporalStarAfterOf_(s1, f)) >>

\* removeAfterFace(afterFace)
removeAfterFaceSteps(s, f) ==
    LET s1 == [s EXCEPT !.afterFaces = @ \ {f}]
    IN  << Step("assign", s1),
           Step("removeMeFromTemporalStarBeforeOf_", removeMeFromTemporalStarBeforeOf_(s1, f)) >>

-----------------------------------------------------------------------------
(* Text: a QString or the content of a QTextStream is a sequence of        *)
(* characters.  A field name is kept as one character-like symbol.         *)

Digits == << "0", "1", "2", "3", "4", "5", "6", "7", "8", "9" >>

IsDigit(c) == \E d \in DOMAIN Digits : Digits[d] = c

DigitVal(c) == (CHOOSE d \in DOMAIN Digits : Digits[d] = c) - 1

\* QString::setNum(n), QTextStream << n, for n >= 0
RECURSIVE NumToChars(_)
NumToChars(n) ==
    IF n < 10 THEN << Digits[n + 1] >>
    ELSE NumToChars(n \div 10) \o << Digits[(n % 10) + 1] >>

RECURSIVE CharsToNum(_)
CharsToNum(w) ==
    IF w = << >> THEN 0
    ELSE 10 * CharsToNum(SubSeq(w, 1, Len(w) - 1)) + DigitVal(w[Len(w)])

\* The character a read past the end of the stream leaves in a char
Nul == "NUL"

RECURSIVE SkipWs(_)
SkipWs(s) == IF s # << >> /\ Head(s) = " " THEN SkipWs(Tail(s)) ELSE s

RECURSIVE WordLen(_)
WordLen(s) == IF s = << >> \/ Head(s) = " " THEN 0 ELSE 1 + WordLen(Tail(s))

RECURSIVE DigitsLen(_)
DigitsLen(s) == IF s = << >> \/ ~IsDigit(Head(s)) THEN 0 ELSE 1 + DigitsLen(Tail(s))

Drop(s, n) == SubSeq(s, n + 1, Len(s))

\* QTextStream >> QString: skips white space, reads up to the next white space
ReadWord(s) ==
    LET t == SkipWs(s)
        n == WordLen(t)
    IN  [val |-> SubSeq(t, 1, n), rest |-> Drop(t, n)]

\* QTextStream >> char: the next character, white space included
ReadChar(s) ==
    IF s = << >> THEN [val |-> Nul, rest |-> << >>]
    ELSE [val |-> Head(s), rest |-> Tail(s)]

\* QTextStream >> int: skips white space, reads a sign and digits; 0 when no
\* digit is there, and the offending character stays in the stream
ReadInt(s) ==
    LET t == SkipWs(s)
        signed == t # << >> /\ Head(t) \in {"+", "-"}
        u == IF signed THEN Tail(t) ELSE t
        n == DigitsLen(u)
        v == CharsToNum(SubSeq(u, 1, n))
    IN  IF n = 0 THEN [val |-> 0, rest |-> u]
        ELSE [val |-> IF signed /\ Head(t) = "-" THEN 0 - v ELSE v, rest |-> Drop(u, n)]

\* QString::toInt: 0 unless the whole string is a number
ToInt(w) ==
    LET r == ReadInt(w) IN IF w # << >> /\ r.rest = << >> THEN r.val ELSE 0

\* QString::simplified().split(' ', Qt::SkipEmptyParts)
RECURSIVE SplitWords(_)
SplitWords(s) ==
    LET r == ReadWord(s)
    IN  IF r.val = << >> THEN << >> ELSE << r.val >> \o SplitWords(r.rest)

RECURSIVE Join(_, _)
Join(parts, sep) ==
    IF parts = << >> THEN << >>
    ELSE IF Len(parts) = 1 THEN parts[1]
    ELSE parts[1] \o sep \o Join(Tail(parts), sep)

\* The orders in which a QSet can be iterated
Orders(S) == {p \in [1..Cardinality(S) -> S] : \A i, j \in DOMAIN p : p[i] = p[j] => i = j}

-----------------------------------------------------------------------------
(* The persisted form of an animated cycle *)

HalfedgeToString(h) == NumToChars(h.edge) \o << IF h.side THEN "+" ELSE "-" >>

\* AnimatedCycle::toString
toString(c) ==
    << "[" >> \o Join([k \in DOMAIN c |-> HalfedgeToString(c[k])], << " " >>) \o << "]" >>

HalfedgeFromString(w) ==
    Halfedge(CharsToNum(SubSeq(w, 1, DigitsLen(w))), w[Len(w)] = "+")

\* AnimatedCycle::fromString
fromString(str) ==
    LET inner == SelectSeq(str, LAMBDA ch : ch \notin {"[", "]"})
        words == SplitWords(inner)
    IN  [k \in DOMAIN words |-> HalfedgeFromString(words[k])]

\* QTextStream << QList<AnimatedCycle>
WriteCycles(cycles) ==
    << "[", " " >> \o Join([k \in DOMAIN cycles |-> toString(cycles[k]) \o << " " >>],
                           << ",", " " >>) \o << "]" >>

\* The characters up to and including the first "]" (all of them when none)
RECURSIVE UpToClose(_)
UpToClose(s) ==
    IF s = << >> THEN << >>
    ELSE IF Head(s) = "]" THEN << "]" >>
    ELSE << Head(s) >> \o UpToClose(Tail(s))

\* QTextStream >> QList<AnimatedCycle>, after the opening bracket of the list
RECURSIVE ReadCycleItems(_, _)
ReadCycleItems(s, acc) ==
    LET t == SkipWs(s) IN
    IF t = << >> THEN [val |-> acc, rest |-> t]
    ELSE IF Head(t) = "]" THEN [val |-> acc, rest |-> Tail(t)]
    ELSE IF Head(t) = "," THEN ReadCycleItems(Tail(t), acc)
    ELSE LET str == UpToClose(t)
         IN  ReadCycleItems(Drop(t, Len(str)), Append(acc, fromString(str)))

ReadCycles(s) == ReadCycleItems(ReadWord(s).rest, << >>)

\* Save::newField(name)
newField(name) == << " ", name, " ", ":", " " >>

\* QTextStream >> Field: the name and the colon
ReadField(s) == ReadWord(ReadWord(s).rest)

-----------------------------------------------------------------------------
(* save_ and the QTextStream constructor *)

\* save_ that writes no comma between two identities
SaveFaceList_noComma(ids) ==
    << "[" >> \o Join([k \in DOMAIN ids |-> << " " >> \o NumToChars(ids[k])], << >>)
              \o << " ", "]" >>

\* The bracketed list save_ writes for a set iterated in the order ids
SaveFaceList(ids) ==
    << "[" >> \o Join([k \in DOMAIN ids |-> << " " >> \o NumToChars(ids[k])], << " ", "," >>)
              \o << " ", "]" >>

\* InbetweenFace::save_, the sets iterated in the orders bf and af
save_Text(cycles, bf, af) ==
    newField("Cycles") \o WriteCycles(cycles)
    \o newField("BeforeFaces") \o SaveFaceList(bf)
    \o newField("AfterFaces") \o SaveFaceList(af)

\* while(openedBracket != 0) { in >> c; ... listAsString.append(c); }
\* At the end of the stream every further read leaves NUL in c, so the count
\* never changes again and the loop does not end.
RECURSIVE ScanList(_, _, _)
ScanList(in, opened, str) ==
    IF opened = 0 THEN [ends |-> TRUE, str |-> str, rest |-> in]
    ELSE IF in = << >> THEN [ends |-> FALSE, str |-> str, rest |-> in]
    ELSE LET c == ReadChar(in).val
             o == IF c = "[" THEN opened + 1 ELSE IF c = "]" THEN opened - 1 ELSE opened
         IN  ScanList(ReadChar(in).rest, o, Append(str, c))

\* while(delimiter == ",") { newIn >> id; temp << id; newIn >> delimiter; }
RECURSIVE ReadIds(_, _)
ReadIds(newIn, acc) ==
    LET id == ReadInt(newIn)
        delimiter == ReadWord(id.rest)
    IN  IF delimiter.val = << "," >> THEN ReadIds(delimiter.rest, Append(acc, id.val))
        ELSE Append(acc, id.val)

\* One list of the QTextStream constructor: the field, the list as a string,
\* the test for the void list, the identities
ReadFaceList(in) ==
    LET afterField == ReadField(in).rest
        first == ReadWord(afterField)
        scan == ScanList(first.rest, 1, first.val)
        b1 == ReadWord(scan.str)
        b2 == ReadWord(b1.rest)
    IN  [ends |-> scan.ends,
         ids |-> IF ~scan.ends \/ b2.val = << "]" >> THEN << >>
                 ELSE ReadIds(ReadWord(scan.str).rest, << >>),
         rest |-> scan.rest]

NotLoaded == [status |-> "none"]

\* InbetweenFace(VAC*, QTextStream &)
ConstructFromText(in) ==
    LET cyc == ReadCycles(ReadField(in).rest)
        bf == ReadFaceList(cyc.rest)
        af == ReadFaceList(bf.rest)
    IN  [status |-> IF bf.ends /\ af.ends THEN "constructed" ELSE "hang",
         via |-> "text",
         cycles |-> cyc.val,
         tempBeforeFaces |-> bf.ids,
         tempAfterFaces |-> IF bf.ends THEN af.ids ELSE << >>,
         beforeFaces |-> {},
         afterFaces |-> {}]

-----------------------------------------------------------------------------
(* write_ and the XmlStreamReader constructor *)

\* write_ that puts no space between two identities
WriteFaceList_noSpace(ids) == Join([k \in DOMAIN ids |-> NumToChars(ids[k])], << >>)

\* The string write_ builds for a set iterated in the order ids
WriteFaceList(ids) == Join([k \in DOMAIN ids |-> NumToChars(ids[k])], << " " >>)

\* InbetweenFace::write_, the sets iterated in the orders bf and af
write_Xml(cycles, bf, af) ==
    [cycles |-> Join([k \in DOMAIN cycles |-> toString(cycles[k])], << " " >>),
     beforefaces |-> WriteFaceList(bf),
     afterfaces |-> WriteFaceList(af),
     written |-> TRUE]

\* The loop over the characters of the cycles attribute
RECURSIVE XmlCycles(_, _, _, _)
XmlCycles(d, opened, str, acc) ==
    IF d = << >> THEN acc
    ELSE LET c == Head(d)
             o == opened \/ c = "["
             st == IF o THEN Append(str, c) ELSE str
         IN  IF c = "]" THEN XmlCycles(Tail(d), FALSE, << >>, Append(acc, fromString(st)))
             ELSE XmlCycles(Tail(d), o, st, acc)

XmlIds(value) == LET sl == SplitWords(value) IN [k \in DOMAIN sl |-> ToInt(sl[k])]

\* An XmlStreamReader constructor that already fills the before and after
\* faces from the identities it reads
ConstructFromXml_eager(attributes) ==
    [status |-> "constructed",
     via |-> "xml",
     cycles |-> XmlCycles(attributes.cycles, FALSE, << >>, << >>),
     tempBeforeFaces |-> XmlIds(attributes.beforefaces),
     tempAfterFaces |-> XmlIds(attributes.afterfaces),
     beforeFaces |-> Range(XmlIds(attributes.beforefaces)),
     afterFaces |-> Range(XmlIds(attributes.afterfaces))]

\* InbetweenFace(VAC*, XmlStreamReader &)
ConstructFromXml(attributes) ==
    [status |-> "constructed",
     via |-> "xml",
     cycles |-> XmlCycles(attributes.cycles, FALSE, << >>, << >>),
     tempBeforeFaces |-> XmlIds(attributes.beforefaces),
     tempAfterFaces |-> XmlIds(attributes.afterfaces),
     beforeFaces |-> {},
     afterFaces |-> {}]

-----------------------------------------------------------------------------
(* read2ndPass *)

\* The null pointer
Null == 0

\* VAC::getCell(id) in a complex whose live cells are reg
getCell(reg, id) == IF id \in reg THEN id ELSE Null

\* Cell::toKeyFace()
toKeyFace(c) == IF c \in KeyFaceIds THEN c ELSE Null

\* AnimatedCycle::convertTempIdsToPointers(vac)
convertTempIdsToPointers(reg, c) ==
    [k \in DOMAIN c |-> Halfedge(getCell(reg, c[k].edge), c[k].side)]

\* The identities of a temporary list that getCell does not resolve
Unresolved(reg, ids) == {k \in DOMAIN ids : getCell(reg, ids[k]) = Null}

\* foreach(int id, temp) set << vac()->getCell(id)->toKeyFace();
\* up to the first identity getCell does not resolve, or the whole list
ResolveUpTo(reg, ids, n) == {toKeyFace(getCell(reg, ids[k])) : k \in 1..n}

FirstUnresolved(reg, ids) ==
    IF Unresolved(reg, ids) = {} THEN Len(ids) + 1
    ELSE CHOOSE k \in Unresolved(reg, ids) : \A j \in Unresolved(reg, ids) : k <= j

\* InbetweenFace::read2ndPass.  getCell(id)->toKeyFace() on an identity that
\* does not resolve is a call through a null pointer: the build either stops
\* there (derefNull = "crash") or carries on with a null result ("null").
read2ndPass_(reg, f, derefNull) ==
    LET cyc == [i \in DOMAIN f.cycles |-> convertTempIdsToPointers(reg, f.cycles[i])]
        kb == FirstUnresolved(reg, f.tempBeforeFaces)
        ka == FirstUnresolved(reg, f.tempAfterFaces)
        nb == Len(f.tempBeforeFaces)
        na == Len(f.tempAfterFaces)
    IN  IF derefNull = "crash" /\ kb <= nb
        THEN [f EXCEPT !.status = "crash", !.cycles = cyc,
                       !.beforeFaces = ResolveUpTo(reg, f.tempBeforeFaces, kb - 1)]
        ELSE IF derefNull = "crash" /\ ka <= na
        THEN [f EXCEPT !.status = "crash", !.cycles = cyc,
                       !.beforeFaces = ResolveUpTo(reg, f.tempBeforeFaces, nb),
                       !.afterFaces = ResolveUpTo(reg, f.tempAfterFaces, ka - 1)]
        ELSE [f EXCEPT !.status = "loaded", !.cycles = cyc,
                       !.beforeFaces = ResolveUpTo(reg, f.tempBeforeFaces, nb),
                       !.afterFaces = ResolveUpTo(reg, f.tempAfterFaces, na)]

-----------------------------------------------------------------------------
(* Sampling and triangulation *)

\* The sampled geometry of each edge, as 2D points; it is the same at every
\* time at which the edge exists.
PA == << 0, 0 >>
PB == << 1, 0 >>
PC == << 0, 1 >>
EdgeSampling ==
    [e \in EdgeIds |->
       CASE e = 1 -> << PA, PB >>
         [] e = 2 -> << PB, PC, PA >>
         [] e = 5 -> << PA, PC >>
         [] OTHER -> << PA, PB, PC >>]

Reverse(q) == [k \in DOMAIN q |-> q[Len(q) + 1 - k]]

RECURSIVE Concat(_)
Concat(qs) == IF qs = << >> THEN << >> ELSE Head(qs) \o Concat(Tail(qs))

\* AnimatedCycle::sample(time, sampling): the oriented samples of the
\* half-edges, one after the other; nothing when the cycle is invalid or one
\* of its cells does not exist at that time
sample(c, t) ==
    IF \E k \in DOMAIN c : ~EdgeExists(c[k].edge, t) THEN << >>
    ELSE Concat([k \in DOMAIN c |->
                   IF c[k].side THEN EdgeSampling[c[k].edge]
                   ELSE Reverse(EdgeSampling[c[k].edge])])

\* createPolygonData(cycles, time): one contour per cycle, z = 0
createPolygonData(cycles, t) ==
    [k \in DOMAIN cycles |->
       LET sampling == sample(cycles[k], t)
       IN  [j \in DOMAIN sampling |-> << sampling[j][1], sampling[j][2], 0 >>]]

\* The region a contour encloses, named by the contour's corners; a contour
\* of fewer than 3 distinct points encloses nothing.
Enclosed(contour) ==
    IF Cardinality(Range(contour)) < 3 THEN {} ELSE {Range(contour)}

\* Hole semantics: a region is covered when an odd number of contours
\* enclose it.
Covered(polygon) ==
    {r \in UNION {Enclosed(polygon[k]) : k \in DOMAIN polygon} :
        Cardinality({k \in DOMAIN polygon : r \in Enclosed(polygon[k])}) % 2 = 1}

\* The triangles that fan out from the first point of a contour
Fan(contour) ==
    [i \in 1..(Len(contour) - 2) |-> << contour[1], contour[i + 1], contour[i + 2] >>]

\* detail::tesselatePolygon(polygon, triangles): triangles are appended for
\* each covered region, from the first contour that encloses it
tesselatePolygon(polygon, triangles) ==
    triangles \o
    Concat([k \in DOMAIN polygon |->
              IF /\ Enclosed(polygon[k]) \subseteq Covered(polygon)
                 /\ Enclosed(polygon[k]) # {}
                 /\ \A j \in 1..(k - 1) : Enclosed(polygon[j]) # Enclosed(polygon[k])
              THEN Fan(polygon[k]) ELSE << >>])

\* computeTrianglesFromCycles(cycles, triangles, time)
computeTrianglesFromCycles(cycles, triangles, t) ==
    tesselatePolygon(createPolygonData(cycles, t), triangles)

\* triangulate_ that does not clear out first
triangulate_Result_noClear(cycles, t, outBefore) ==
    IF exists(t) THEN computeTrianglesFromCycles(cycles, outBefore, t) ELSE outBefore

\* InbetweenFace::triangulate_(time, out): the value of out at return
triangulate_Result(cycles, t, outBefore) ==
    LET cleared == << >>
    IN  IF exists(t) THEN computeTrianglesFromCycles(cycles, cleared, t) ELSE cleared

\* InbetweenFace::getSampling(time): the value returned
getSamplingResult(cycles, t) ==
    LET data == createPolygonData(cycles, t)
    IN  [k \in DOMAIN data |-> [i \in DOMAIN data[k] |-> << data[k][i][1], data[k][i][2] >>]]

-----------------------------------------------------------------------------
(* The state machine of the mutations *)

\* The handler has run: the face and the stars take the state after its last
\* statement, and the history keeps the call and its steps.
Commit(op, arg, tr) ==
    /\ cycles_' = Final(tr).cycles
    /\ beforeFaces_' = Final(tr).beforeFaces
    /\ afterFaces_' = Final(tr).afterFaces
    /\ spatialStar' = Final(tr).spatialStar
    /\ temporalStarBefore' = Final(tr).temporalStarBefore
    /\ temporalStarAfter' = Final(tr).temporalStarAfter
    /\ last' = [op |-> op, arg |-> arg, pre |-> Self, trace |-> tr]
    /\ UNCHANGED <<ioVars, out>>

\* No call is in progress or recorded
Idle == [op |-> "idle"]

CycleLists == UNION {[1..n -> CycleValues] : n \in 0..MaxCycles}

NoXml == [cycles |-> << >>, beforefaces |-> << >>, afterfaces |-> << >>, written |-> FALSE]

\* Nothing is persisted and nothing is being loaded
InitIdleIO ==
    /\ stream = << >>
    /\ xml = NoXml
    /\ loaded = NotLoaded

\* The face has been built by the explicit constructor, its cycles being
\* one of lists
InitFaceFrom(lists) ==
    \E cycles \in lists, bf \in SUBSET KeyFaceIds, af \in SUBSET KeyFaceIds :
        LET tr == ConstructSteps(cycles, bf, af) IN
        /\ cycles_ = Final(tr).cycles
        /\ beforeFaces_ = Final(tr).beforeFaces
        /\ afterFaces_ = Final(tr).afterFaces
        /\ spatialStar = Final(tr).spatialStar
        /\ temporalStarBefore = Final(tr).temporalStarBefore
        /\ temporalStarAfter = Final(tr).temporalStarAfter
        /\ last = [op |-> "InbetweenFace", arg |-> << >>, pre |-> tr[1].s, trace |-> tr]

InitFace == InitFaceFrom(CycleLists)

Init ==
    /\ InitFace
    /\ InitIdleIO
    /\ registry = CellIds
    /\ out = << >>

addAnimatedCycle ==
    /\ last = Idle
    /\ Len(cycles_) < MaxCycles
    /\ Commit("addAnimatedCycle", << >>, addAnimatedCycleSteps(Self))

addAnimatedCycleWith ==
    /\ last = Idle
    /\ Len(cycles_) < MaxCycles
    /\ \E c \in CycleValues \ {EmptyCycle} :
         Commit("addAnimatedCycleWith", <<c>>, addAnimatedCycleWithSteps(Self, c))

setCycle ==
    /\ last = Idle
    /\ \E i \in DOMAIN cycles_, c \in CycleValues \ {EmptyCycle} :
           Commit("setCycle", <<i, c>>, setCycleSteps(Self, i, c))

removeCycle ==
    /\ last = Idle
    /\ \E i \in DOMAIN cycles_ :
           Commit("removeCycle", <<i>>, removeCycleSteps(Self, i))

setBeforeFaces ==
    /\ last = Idle
    /\ \E faces \in SUBSET KeyFaceIds :
           Commit("setBeforeFaces", <<faces>>, setBeforeFacesSteps(Self, faces))

setAfterFaces ==
    /\ last = Idle
    /\ \E faces \in SUBSET KeyFaceIds :
           Commit("setAfterFaces", <<faces>>, setAfterFacesSteps(Self, faces))

addBeforeFace ==
    /\ last = Idle
    /\ \E f \in KeyFaceIds : Commit("addBeforeFace", <<f>>, addBeforeFaceSteps(Self, f))

addAfterFace ==
    /\ last = Idle
    /\ \E f \in KeyFaceIds : Commit("addAfterFace", <<f>>, addAfterFaceSteps(Self, f))

removeBeforeFace ==
    /\ last = Idle
    /\ \E f \in KeyFaceIds : Commit("removeBeforeFace", <<f>>, removeBeforeFaceSteps(Self, f))

removeAfterFace ==
    /\ last = Idle
    /\ \E f \in KeyFaceIds : Commit("removeAfterFace", <<f>>, removeAfterFaceSteps(Self, f))

\* The call has returned to its caller; the record of it is dropped.
Return ==
    /\ last # Idle
    /\ last' = Idle
    /\ UNCHANGED <<faceVars, ioVars, out>>

Next ==
    \/ Return
    \/ addAnimatedCycle
    \/ addAnimatedCycleWith
    \/ setCycle
    \/ removeCycle
    \/ setBeforeFaces
    \/ setAfterFaces
    \/ addBeforeFace
    \/ addAfterFace
    \/ removeBeforeFace
    \/ removeAfterFace

Spec == Init /\ [][Next]_vars

-----------------------------------------------------------------------------
(* The state machine of saving and loading: the face is saved once, in    *)
(* either form, and what was saved is loaded in two passes into a complex *)
(* whose live cells are registry.                                         *)

\* The complexes a face is loaded into: every cell is live, or one key face
\* is missing.
Registries == {CellIds} \cup {CellIds \ {f} : f \in {6} \cap KeyFaceIds}

InitIO ==
    /\ InitFace
    /\ InitIdleIO
    /\ registry \in Registries
    /\ out = << >>

Unsaved == stream = << >> /\ ~xml.written

save_ ==
    /\ Unsaved
    /\ \E bf \in Orders(beforeFaces_), af \in Orders(afterFaces_) :
         stream' = save_Text(cycles_, bf, af)
    /\ last' = [op |-> "save_"]
    /\ UNCHANGED <<faceVars, out, xml, registry, loaded>>

write_ ==
    /\ Unsaved
    /\ \E bf \in Orders(beforeFaces_), af \in Orders(afterFaces_) :
         xml' = write_Xml(cycles_, bf, af)
    /\ last' = [op |-> "write_"]
    /\ UNCHANGED <<faceVars, out, stream, registry, loaded>>

InbetweenFace_QTextStream ==
    /\ stream # << >>
    /\ loaded = NotLoaded
    /\ loaded' = ConstructFromText(stream)
    /\ last' = [op |-> "InbetweenFace_QTextStream", cellsBuilt |-> registry]
    /\ UNCHANGED <<faceVars, out, stream, xml, registry>>

InbetweenFace_XmlStreamReader ==
    /\ xml.written
    /\ loaded = NotLoaded
    /\ loaded' = ConstructFromXml(xml)
    /\ last' = [op |-> "InbetweenFace_XmlStreamReader", cellsBuilt |-> registry]
    /\ UNCHANGED <<faceVars, out, stream, xml, registry>>

read2ndPass ==
    /\ loaded.status = "constructed"
    /\ \E derefNull \in {"crash", "null"} :
         loaded' = read2ndPass_(registry, loaded, derefNull)
    /\ last' = [op |-> "read2ndPass", cellsBuilt |-> last.cellsBuilt]
    /\ UNCHANGED <<faceVars, out, stream, xml, registry>>

NextIO ==
    \/ save_
    \/ write_
    \/ InbetweenFace_QTextStream
    \/ InbetweenFace_XmlStreamReader
    \/ read2ndPass

SpecIO == InitIO /\ [][NextIO]_vars

-----------------------------------------------------------------------------
(* The state machine of sampling and triangulation: the face is queried   *)
(* at any time, one query after the other, with the same out.             *)

triangulate_ ==
    \E t \in Times :
        /\ out' = triangulate_Result(cycles_, t, out)
        /\ last' = [op |-> "triangulate_", arg |-> << t >>, outBefore |-> out,
                    pre |-> Self, prevOp |-> last.op, prevArg |-> last.arg]
        /\ UNCHANGED <<faceVars, ioVars>>

getSampling ==
    \E t \in Times :
        /\ last' = [op |-> "getSampling", arg |-> << t >>,
                    ret |-> getSamplingResult(cycles_, t)]
        /\ UNCHANGED <<faceVars, ioVars, out>>

NextTri ==
    \/ triangulate_
    \/ getSampling

SpecTri == Init /\ [][NextTri]_vars

-----------------------------------------------------------------------------
(* The state machine of loading a text that is not what save_ wrote: one  *)
(* character of the BeforeFaces or AfterFaces list of a saved face is     *)
(* missing or is replaced, and the text is loaded in two passes.          *)

RemoveCharAt(text, i) == SubSeq(text, 1, i - 1) \o Drop(text, i)

\* The places of the characters of the two lists: brackets, commas, digits
ListChars(text) ==
    {i \in DOMAIN text :
        /\ \E j \in 1..i : text[j] = "BeforeFaces"
        /\ text[i] \in {"[", "]", ","} \/ IsDigit(text[i])}

Damaged(text) ==
    {text} \cup {RemoveCharAt(text, i) : i \in ListChars(text)}
           \cup {[text EXCEPT ![i] = "x"] : i \in ListChars(text)}

InitParse ==
    /\ InitFace
    /\ Len(cycles_) <= 1
    /\ xml = NoXml
    /\ loaded = NotLoaded
    /\ registry = CellIds
    /\ out = << >>
    /\ \E bf \in Orders(beforeFaces_), af \in Orders(afterFaces_) :
         stream \in Damaged(save_Text(cycles_, bf, af))

NextParse ==
    \/ InbetweenFace_QTextStream
    \/ read2ndPass

SpecParse == InitParse /\ [][NextParse]_vars

-----------------------------------------------------------------------------
(* The state machine of the two-phase load of a complex: the face is saved, *)
(* then phase 1 constructs the cells of the complex one after the other,    *)
(* the face among them at any place, and phase 2 runs read2ndPass once      *)
(* every cell is constructed.  registry holds the cells constructed so far. *)
(* The key faces are constructed in any order; the edges in the order of    *)
(* their identities.                                                        *)

InitLoad ==
    /\ InitFace
    /\ Len(cycles_) <= 1
    /\ InitIdleIO
    /\ registry = {}
    /\ out = << >>

\* Phase 1 constructs one more cell of the complex
constructCell ==
    /\ ~Unsaved
    /\ loaded.status \in {"none", "constructed"}
    /\ \E c \in CellIds \ registry :
         /\ c \in EdgeIds => \A e \in EdgeIds : e < c => e \in registry
         /\ registry' = registry \cup {c}
    /\ UNCHANGED <<faceVars, out, stream, xml, loaded, last>>

\* Phase 2: the complex calls read2ndPass of the face once every cell is
\* constructed
VAC_read2ndPass ==
    /\ registry = CellIds
    /\ read2ndPass

NextLoad ==
    \/ save_
    \/ write_
    \/ constructCell
    \/ InbetweenFace_QTextStream
    \/ InbetweenFace_XmlStreamReader
    \/ VAC_read2ndPass

SpecLoad == InitLoad /\ [][NextLoad]_vars

-----------------------------------------------------------------------------
(* Boundary update: the complex has replaced a key edge by a chain of key  *)
(* edges, or a half-edge by another, and tells the face.                   *)

\* The key vertices, and the key edges that replace a split edge
KeyVertexIds == {21, 22, 23, 24}
SplitEdgeIds == {7, 8}

\* KeyEdge::startVertex and KeyEdge::endVertex.  Edge 1 goes from 21 to 22
\* and edge 2 back; edges 7 and 8 are the two halves of edge 1, joined at 24.
StartVertex ==
    [e \in KeyEdgeIds \cup SplitEdgeIds |->
       CASE e = 2 -> 22
         [] e = 8 -> 24
         [] OTHER -> 21]
EndVertex ==
    [e \in KeyEdgeIds \cup SplitEdgeIds |->
       CASE e = 1 -> 22
         [] e = 2 -> 21
         [] e = 7 -> 24
         [] e = 8 -> 22
         [] OTHER -> 23]

\* The chain of newEdges with every edge forward
ForwardChain(newEdges) == [j \in DOMAIN newEdges |-> Halfedge(newEdges[j], TRUE)]

\* The chain of newEdges in reverse order with every edge reversed
ReversedChain(newEdges) ==
    [j \in DOMAIN newEdges |-> Halfedge(newEdges[Len(newEdges) + 1 - j], FALSE)]

\* A splice that keeps the order of the chain for a reversed occurrence
replaceEdges_noReverse(c, oldEdge, newEdges) ==
    Concat([k \in DOMAIN c |->
              IF c[k].edge # oldEdge THEN << c[k] >>
              ELSE [j \in DOMAIN newEdges |-> Halfedge(newEdges[j], c[k].side)]])

\* AnimatedCycle::replaceEdges(oldEdge, newEdges)
replaceEdges(c, oldEdge, newEdges) ==
    Concat([k \in DOMAIN c |->
              IF c[k].edge # oldEdge THEN << c[k] >>
              ELSE IF c[k].side THEN ForwardChain(newEdges)
              ELSE ReversedChain(newEdges)])

\* AnimatedCycle::replaceHalfedge(oldHalfedge, newHalfedge)
replaceHalfedge(c, oldHalfedge, newHalfedge) ==
    [k \in DOMAIN c |->
       IF c[k].edge = oldHalfedge.edge
       THEN Halfedge(newHalfedge.edge, c[k].side = (oldHalfedge.side = newHalfedge.side))
       ELSE c[k]]

\* updateBoundary_impl(KeyEdge *, const KeyEdgeList &) with no test of the
\* time of the old edge
updateBoundary_impl_KeyEdge_noTest(cycles, oldEdge, newEdges) ==
    [cycles |-> [i \in DOMAIN cycles |-> replaceEdges(cycles[i], oldEdge, newEdges)],
     calls |-> [i \in DOMAIN cycles |-> i]]

\* updateBoundary_impl(KeyEdge * oldEdge, const KeyEdgeList & newEdges): the
\* cycles at return, and the indices of the cycles replaceEdges was called
\* on, in the order of the calls
updateBoundary_impl_KeyEdge(cycles, oldEdge, newEdges) ==
    IF ~exists(KeyEdgeTime[oldEdge])
    THEN [cycles |-> cycles, calls |-> << >>]
    ELSE [cycles |-> [i \in DOMAIN cycles |-> replaceEdges(cycles[i], oldEdge, newEdges)],
          calls |-> [i \in DOMAIN cycles |-> i]]

\* updateBoundary_impl(const KeyHalfedge &, const KeyHalfedge &)
updateBoundary_impl_KeyHalfedge(cycles, oldHalfedge, newHalfedge) ==
    [cycles |-> [i \in DOMAIN cycles |-> replaceHalfedge(cycles[i], oldHalfedge, newHalfedge)],
     calls |-> [i \in DOMAIN cycles |-> i]]

\* The cycles of the faces that are updated
UpdateCycleValues ==
    { EmptyCycle,
      << Halfedge(1, TRUE), Halfedge(2, TRUE) >>,
      << Halfedge(2, FALSE), Halfedge(1, FALSE) >>,
      << Halfedge(1, TRUE), Halfedge(1, FALSE) >>,
      << Halfedge(1, FALSE) >>,
      << Halfedge(3, TRUE) >> }
UpdateCycleLists == UNION {[1..n -> UpdateCycleValues] : n \in 0..MaxCycles}

\* The lists of new edges the complex passes
NewEdgesLists == {<< >>, << 7 >>, << 7, 8 >>, << 8, 7 >>}

InitUpdate ==
    /\ InitFaceFrom(UpdateCycleLists)
    /\ InitIdleIO
    /\ registry = CellIds
    /\ out = << >>

\* The face after the update: only the cycles are assigned
Updated(op, arg, res) ==
    /\ cycles_' = res.cycles
    /\ last' = [op |-> op, arg |-> arg, pre |-> Self, calls |-> res.calls]
    /\ UNCHANGED <<beforeFaces_, afterFaces_, spatialStar, temporalStarBefore,
                   temporalStarAfter, ioVars, out>>

\* The edges the cycles of the face refer to
EdgesInUse == UNION {{cycles_[i][k].edge : k \in DOMAIN cycles_[i]} : i \in DOMAIN cycles_}

\* The new edges are cells the complex has just created: no cycle refers to
\* them yet.
updateBoundary_KeyEdge ==
    /\ last = Idle
    /\ \E oldEdge \in KeyEdgeIds, newEdges \in NewEdgesLists :
         /\ Range(newEdges) \cap EdgesInUse = {}
         /\ Updated("updateBoundary_KeyEdge", << oldEdge, newEdges >>,
                 updateBoundary_impl_KeyEdge(cycles_, oldEdge, newEdges))

updateBoundary_KeyHalfedge ==
    /\ last = Idle
    /\ \E oldEdge \in {1, 2}, newEdge \in SplitEdgeIds, d1 \in BOOLEAN, d2 \in BOOLEAN :
         /\ newEdge \notin EdgesInUse
         /\ Updated("updateBoundary_KeyHalfedge",
                    << Halfedge(oldEdge, d1), Halfedge(newEdge, d2) >>,
                    updateBoundary_impl_KeyHalfedge(cycles_, Halfedge(oldEdge, d1),
                                                    Halfedge(newEdge, d2)))

NextUpdate ==
    \/ Return
    \/ updateBoundary_KeyEdge
    \/ updateBoundary_KeyHalfedge

SpecUpdate == InitUpdate /\ [][NextUpdate]_vars

-----------------------------------------------------------------------------
(* Copy of the face into another complex: clone() makes a copy of the      *)
(* face, and remapPointers(newVAC) makes the face refer to the cells of    *)
(* newVAC that have the identities of the cells it referred to.  A pointer *)
(* to the cell with identity i is i in the complex of the face and         *)
(* NewVACBase + i in newVAC; registry holds the identities of the cells of *)
(* newVAC.                                                                 *)

NewVACBase == 100

\* Cell::id()
cellId(cell) == cell % NewVACBase

\* Are the cells pointers into newVAC
InNewVAC(cells, newVAC) ==
    \A cell \in cells : cell > NewVACBase /\ cellId(cell) \in newVAC

\* vac()->getCell(id) once Cell::remapPointers(newVAC) has made newVAC the
\* complex of the face
getCell_newVAC(newVAC, i) == IF i \in newVAC THEN NewVACBase + i ELSE Null

\* Cell::toKeyFace() of a cell of either complex
toKeyFace_newVAC(cell) == IF cellId(cell) \in KeyFaceIds THEN cell ELSE Null

\* AnimatedCycle::remapPointers(newVAC)
remapPointers_Cycle(c, newVAC) ==
    [k \in DOMAIN c |-> Halfedge(getCell_newVAC(newVAC, cellId(c[k].edge)), c[k].side)]

\* The key faces newVAC gives for the identities of faces
Remapped(faces, newVAC) ==
    {toKeyFace_newVAC(getCell_newVAC(newVAC, cellId(face))) : face \in faces}

\* Is getCell(face->id()) null for one of faces
SomeUnresolved(faces, newVAC) ==
    \E face \in faces : getCell_newVAC(newVAC, cellId(face)) = Null

\* remapPointers that looks the identities up in the complex the face was in
remapPointers_oldVAC(s, newVAC, derefNull) ==
    [status |-> "done", face |-> s]

\* InbetweenFace::remapPointers(newVAC).  getCell(face->id())->toKeyFace() on
\* an identity newVAC does not hold is a call through a null pointer: the
\* build either stops there (derefNull = "crash"), the set it was filling
\* not yet assigned, or carries on with a null result ("null").
remapPointers_(s, newVAC, derefNull) ==
    LET cyc == [i \in DOMAIN s.cycles |-> remapPointers_Cycle(s.cycles[i], newVAC)]
        newBeforeFaces == Remapped(s.beforeFaces, newVAC)
        newAfterFaces == Remapped(s.afterFaces, newVAC)
    IN  IF derefNull = "crash" /\ SomeUnresolved(s.beforeFaces, newVAC)
        THEN [status |-> "crash", face |-> [s EXCEPT !.cycles = cyc]]
        ELSE IF derefNull = "crash" /\ SomeUnresolved(s.afterFaces, newVAC)
        THEN [status |-> "crash",
              face |-> [s EXCEPT !.cycles = cyc, !.beforeFaces = newBeforeFaces]]
        ELSE [status |-> "done",
              face |-> [s EXCEPT !.cycles = cyc, !.beforeFaces = newBeforeFaces,
                                 !.afterFaces = newAfterFaces]]

\* A copy constructor that registers the copy in the stars of its boundary
InbetweenFace_copy_registering(other) ==
    addMeToStarOfBoundary_([other EXCEPT !.spatialStar = {}, !.temporalStarBefore = {},
                                         !.temporalStarAfter = {}])

\* InbetweenFace::InbetweenFace(InbetweenFace * other): the new face, which
\* no star holds
InbetweenFace_copy(other) ==
    [cycles |-> other.cycles,
     beforeFaces |-> other.beforeFaces,
     afterFaces |-> other.afterFaces,
     spatialStar |-> {}, temporalStarBefore |-> {}, temporalStarAfter |-> {},
     notified |-> 0]

\* InbetweenFace::clone(): the face it returns
clone_(s) == InbetweenFace_copy(s)

InitCopy ==
    /\ InitFace
    /\ InitIdleIO
    /\ registry \in Registries
    /\ out = << >>

clone ==
    /\ last = Idle
    /\ last' = [op |-> "clone", arg |-> << >>, pre |-> Self, ret |-> clone_(Self)]
    /\ UNCHANGED <<faceVars, ioVars, out>>

remapPointers ==
    /\ last = Idle
    /\ \E derefNull \in {"crash", "null"} :
         LET r == remapPointers_(Self, registry, derefNull) IN
         /\ cycles_' = r.face.cycles
         /\ beforeFaces_' = r.face.beforeFaces
         /\ afterFaces_' = r.face.afterFaces
         /\ last' = [op |-> "remapPointers", arg |-> << registry >>, pre |-> Self,
                     status |-> r.status]
    /\ UNCHANGED <<spatialStar, temporalStarBefore, temporalStarAfter, ioVars, out>>

\* The call has returned; a call that has stopped at a null pointer never does
ReturnCopy ==
    /\ last.op = "remapPointers" => last.status = "done"
    /\ Return

NextCopy ==
    \/ ReturnCopy
    \/ clone
    \/ remapPointers

SpecCopy == InitCopy /\ [][NextCopy]_vars

-----------------------------------------------------------------------------
(* Properties of the mutations *)

\* The face is in some star of cell c
InStar(c) == c \in spatialStar \cup temporalStarBefore \cup temporalStarAfter

\* Cell c is referenced by the cycles, the before faces or the after faces
Referenced(c) == c \in spatialBoundary(Self) \cup beforeCells(Self) \cup afterCells(Self)

Called == last # Idle

\* C1: star consistency.  After the explicit constructor and after each of
\* the mutations has returned, a cell has the face in its star if and only if
\* the cell is referenced by the face's cycles, before faces or after faces;
\* each of the three stars holds exactly its own part of the boundary.
C1_StarConsistency ==
    /\ \A c \in CellIds : InStar(c) <=> Referenced(c)
    /\ spatialStar = spatialBoundary(Self)
    /\ temporalStarAfter = beforeCells(Self)
    /\ temporalStarBefore = afterCells(Self)

\* C1 witness: removeBeforeFace(f) has removed a key face that is still an
\* after face, from a face that has a cycle over an inbetween edge.
C1_Witness ==
    /\ Called /\ last.op = "removeBeforeFace"
    /\ last.arg[1] \in last.pre.beforeFaces
    /\ last.arg[1] \in afterFaces_
    /\ last.arg[1] \notin beforeFaces_
    /\ temporalStarAfter # {} /\ spatialStar # {}

CycleOps == {"setCycle", "removeCycle", "addAnimatedCycle", "addAnimatedCycleWith"}

Notifications(tr) == {k \in DOMAIN tr : tr[k].stmt = "processGeometryChanged_"}

\* C5: every operation that changes the cycle list (setCycle, removeCycle,
\* addAnimatedCycle(), addAnimatedCycle(cycle)) has issued a geometry-changed
\* notification when it returns, and issues none before the cycle list holds
\* its new value.
C5_CycleMutationNotifies ==
    (Called /\ last.op \in CycleOps /\ cycles_ # last.pre.cycles) =>
        /\ Notifications(last.trace) # {}
        /\ \A k \in Notifications(last.trace) : last.trace[k].s.cycles = cycles_

WholeOps == {"setCycle", "removeCycle", "setBeforeFaces", "setAfterFaces"}

NoStar(s) == s.spatialStar = {} /\ s.temporalStarBefore = {} /\ s.temporalStarAfter = {}

SameCollections(s, t) ==
    s.cycles = t.cycles /\ s.beforeFaces = t.beforeFaces /\ s.afterFaces = t.afterFaces

SameStars(s, t) ==
    /\ s.spatialStar = t.spatialStar
    /\ s.temporalStarBefore = t.temporalStarBefore
    /\ s.temporalStarAfter = t.temporalStarAfter

\* C9: in setCycle, removeCycle, setBeforeFaces and setAfterFaces the first
\* statement removes the face from the stars of the OLD boundary and leaves
\* the collections alone, the second changes the collection while the face is
\* in no star, and the third adds the face to the stars of the NEW boundary.
C9_DeregisterMutateRegister ==
    (Called /\ last.op \in WholeOps) =>
        LET tr == last.trace
            old == last.pre
        IN  /\ Len(tr) >= 3
            /\ tr[1].stmt = "removeMeFromStarOfBoundary_"
            /\ SameCollections(tr[1].s, old)
            /\ tr[1].s.spatialStar = old.spatialStar \ spatialBoundary(old)
            /\ tr[1].s.temporalStarAfter = old.temporalStarAfter \ beforeCells(old)
            /\ tr[1].s.temporalStarBefore = old.temporalStarBefore \ afterCells(old)
            /\ NoStar(tr[1].s)
            /\ tr[2].stmt = "assign"
            /\ NoStar(tr[2].s)
            /\ tr[3].stmt = "addMeToStarOfBoundary_"
            /\ SameCollections(tr[3].s, tr[2].s)
            /\ tr[3].s.spatialStar = spatialBoundary(tr[2].s)
            /\ tr[3].s.temporalStarAfter = beforeCells(tr[2].s)
            /\ tr[3].s.temporalStarBefore = afterCells(tr[2].s)
            /\ SameCollections(Final(tr), tr[2].s)
            /\ SameStars(Final(tr), tr[3].s)

\* C9 witness: setBeforeFaces has replaced a non-empty set by a different
\* non-empty set on a face that has cycles with a boundary.
C9_Witness ==
    /\ Called /\ last.op = "setBeforeFaces"
    /\ last.pre.beforeFaces # {} /\ beforeFaces_ # {}
    /\ last.pre.beforeFaces \ beforeFaces_ # {}
    /\ beforeFaces_ \ last.pre.beforeFaces # {}
    /\ spatialStar # {}

SameFace(s, t) == SameCollections(s, t) /\ SameStars(s, t) /\ s.notified = t.notified

\* C10: a single-element operation ends in the state the whole-set operation
\* ends in: addBeforeFace(f) as setBeforeFaces(beforeFaces + f),
\* removeBeforeFace(f) as setBeforeFaces(beforeFaces - f), and the same for
\* the after faces against setAfterFaces.
C10_SingleAsWholeSet ==
    /\ (Called /\ last.op = "addBeforeFace") =>
         SameFace(Self, Final(setBeforeFacesSteps(last.pre,
                                  last.pre.beforeFaces \cup {last.arg[1]})))
    /\ (Called /\ last.op = "removeBeforeFace") =>
         SameFace(Self, Final(setBeforeFacesSteps(last.pre,
                                  last.pre.beforeFaces \ {last.arg[1]})))
    /\ (Called /\ last.op = "addAfterFace") =>
         SameFace(Self, Final(setAfterFacesSteps(last.pre,
                                  last.pre.afterFaces \cup {last.arg[1]})))
    /\ (Called /\ last.op = "removeAfterFace") =>
         SameFace(Self, Final(setAfterFacesSteps(last.pre,
                                  last.pre.afterFaces \ {last.arg[1]})))

\* C10 witness: addAfterFace(f) has added a key face that is also a before
\* face and was not an after face.
C10_Witness ==
    /\ Called /\ last.op = "addAfterFace"
    /\ last.arg[1] \in beforeFaces_
    /\ last.arg[1] \notin last.pre.afterFaces
    /\ last.arg[1] \in temporalStarBefore \cap temporalStarAfter

-----------------------------------------------------------------------------
(* Properties of saving and loading *)

\* Every key face of the saved face is a live cell of the complex that loads
AllLive == beforeFaces_ \cup afterFaces_ \subseteq registry

\* The bracketed list that follows the field name in the text
ListText(text, name) ==
    LET pos == CHOOSE i \in DOMAIN text : text[i] = name
    IN  UpToClose(Drop(text, pos + 3))

EmptyListText == << "[", " ", "]" >>

IsEnumerationOf(q, S) == Range(q) = S /\ Len(q) = Cardinality(S)

SameAsOriginal(f) ==
    /\ f.beforeFaces = beforeFaces_
    /\ f.afterFaces = afterFaces_
    /\ f.cycles = cycles_

\* C2: text round trip.  What save_ wrote, read by the QTextStream
\* constructor, gives the cycles in number and order and temporary lists
\* that enumerate the identities of the before and the after faces;
\* read2ndPass then gives the same before faces, after faces and cycles as
\* the saved face has, when its key faces are live in the complex.  The
\* empty set, and only it, is written as "[ ]".
C2_TextRoundTrip ==
    /\ stream # << >> =>
         /\ beforeFaces_ = {} <=> ListText(stream, "BeforeFaces") = EmptyListText
         /\ afterFaces_ = {} <=> ListText(stream, "AfterFaces") = EmptyListText
    /\ (loaded # NotLoaded /\ loaded.via = "text") =>
         /\ loaded.status # "hang"
         /\ IsEnumerationOf(loaded.tempBeforeFaces, beforeFaces_)
         /\ IsEnumerationOf(loaded.tempAfterFaces, afterFaces_)
         /\ loaded.status = "constructed" => loaded.cycles = cycles_
         /\ (loaded.status # "constructed" /\ AllLive) =>
              loaded.status = "loaded" /\ SameAsOriginal(loaded)

\* C2 witness: a face with two different cycles, both key faces before it
\* and none after it has been saved as text and loaded through both passes.
C2_Witness ==
    /\ loaded # NotLoaded /\ loaded.via = "text" /\ loaded.status = "loaded"
    /\ Len(cycles_) = 2 /\ cycles_[1] # cycles_[2] /\ cycles_[1] # EmptyCycle
    /\ Cardinality(beforeFaces_) >= 2 /\ afterFaces_ = {}
    /\ loaded.beforeFaces = beforeFaces_ /\ loaded.afterFaces = {}

\* C3: the two encodings are equivalent.  What write_ wrote, read by the
\* XmlStreamReader constructor and read2ndPass, gives the before faces, the
\* after faces and the cycles of the saved face, and so does every text
\* that save_ can write for the same face, read by the QTextStream
\* constructor and read2ndPass.
C3_EncodingsEquivalent ==
    (loaded # NotLoaded /\ loaded.via = "xml" /\ loaded.status # "constructed" /\ AllLive) =>
        /\ loaded.status = "loaded"
        /\ SameAsOriginal(loaded)
        /\ \A bf \in Orders(beforeFaces_), af \in Orders(afterFaces_),
              d \in {"crash", "null"} :
              LET t == read2ndPass_(registry,
                                    ConstructFromText(save_Text(cycles_, bf, af)), d)
              IN  /\ t.status = loaded.status
                  /\ t.beforeFaces = loaded.beforeFaces
                  /\ t.afterFaces = loaded.afterFaces
                  /\ t.cycles = loaded.cycles

\* C3 witness: a face with no cycle, no before face and both key faces after
\* it has been written as XML and loaded through both passes.
C3_Witness ==
    /\ loaded # NotLoaded /\ loaded.via = "xml" /\ loaded.status = "loaded"
    /\ cycles_ = << >> /\ beforeFaces_ = {} /\ Cardinality(afterFaces_) >= 2
    /\ loaded.afterFaces = afterFaces_ /\ loaded.beforeFaces = {}

\* C6: when an identity of a temporary list does not resolve to a live
\* cell, read2ndPass ends with an unresolved-identity error reported to its
\* caller, and no null pointer is ever put in the before or after faces.
C6_UnresolvedIdentityReported ==
    (loaded # NotLoaded /\ loaded.status \notin {"constructed", "hang"}) =>
        /\ Null \notin loaded.beforeFaces \cup loaded.afterFaces
        /\ (Unresolved(registry, loaded.tempBeforeFaces) # {}
            \/ Unresolved(registry, loaded.tempAfterFaces) # {})
             => loaded.status = "UnresolvedIdentityError"

-----------------------------------------------------------------------------
(* Properties of sampling and triangulation *)

EverySampleHas3(t) == \A k \in DOMAIN cycles_ : Len(sample(cycles_[k], t)) >= 3

\* C4 as claimed: out has no triangle when the face does not exist at the
\* time, and has one when the face exists and every cycle samples to at
\* least 3 points.
C4_AsClaimed ==
    (Called /\ last.op = "triangulate_") =>
        /\ ~exists(last.arg[1]) => out = << >>
        /\ (exists(last.arg[1]) /\ EverySampleHas3(last.arg[1])) => out # << >>

\* C4 amended: out has no triangle when the face does not exist at the
\* time, whatever it held before, and none when the face has no cycle; it
\* has one when the face exists, has a cycle, every cycle samples to at
\* least 3 points and the contours cover a region.
C4_TemporalBound ==
    (Called /\ last.op = "triangulate_") =>
        /\ ~exists(last.arg[1]) => out = << >>
        /\ cycles_ = << >> => out = << >>
        /\ (/\ exists(last.arg[1])
            /\ cycles_ # << >>
            /\ EverySampleHas3(last.arg[1])
            /\ Covered(createPolygonData(cycles_, last.arg[1])) # {}) => out # << >>

\* C4 witness: triangulate_ at a time at which the face does not exist has
\* emptied an out that held triangles.
C4_Witness ==
    /\ Called /\ last.op = "triangulate_"
    /\ ~exists(last.arg[1])
    /\ last.outBefore # << >>
    /\ out = << >>

\* C8: getSampling at a time at which the face does not exist returns no
\* sampled contour.
C8_SamplingOutsideIsEmpty ==
    (Called /\ last.op = "getSampling" /\ ~exists(last.arg[1])) =>
        \A k \in DOMAIN last.ret : last.ret[k] = << >>

-----------------------------------------------------------------------------
(* Properties of loading a damaged text *)

FieldNames == {"Cycles", "BeforeFaces", "AfterFaces"}

RECURSIVE UpToField(_)
UpToField(s) ==
    IF s = << >> \/ Head(s) \in FieldNames THEN << >>
    ELSE << Head(s) >> \o UpToField(Tail(s))

\* The text of a field: what follows its name and colon, up to the next field
FieldBody(text, name) ==
    LET pos == CHOOSE i \in DOMAIN text : text[i] = name
    IN  UpToField(Drop(text, pos + 2))

\* The tokens of a list text: a bracket, a comma, or a run of other characters
RECURSIVE Tokens(_)
Tokens(s) ==
    LET t == SkipWs(s) IN
    IF t = << >> THEN << >>
    ELSE IF Head(t) \in {"[", "]", ","} THEN << << Head(t) >> >> \o Tokens(Tail(t))
    ELSE LET RECURSIVE RunLen(_)
             RunLen(u) == IF u = << >> \/ Head(u) \in {"[", "]", ",", " "} THEN 0
                          ELSE 1 + RunLen(Tail(u))
         IN  << SubSeq(t, 1, RunLen(t)) >> \o Tokens(Drop(t, RunLen(t)))

IsIntToken(w) == w # << >> /\ \A k \in DOMAIN w : IsDigit(w[k])

\* The bracketed, comma-separated integer form: "[" "]", or "[" an integer,
\* then a comma and an integer any number of times, "]"
WellFormedList(body) ==
    LET tk == Tokens(body)
        n == Len(tk)
    IN  /\ n >= 2 /\ tk[1] = << "[" >> /\ tk[n] = << "]" >>
        /\ n = 2 \/ n % 2 = 1
        /\ \A k \in 2..(n - 1) :
             IF k % 2 = 0 THEN IsIntToken(tk[k]) ELSE tk[k] = << "," >>

Malformed(text) ==
    \/ ~WellFormedList(FieldBody(text, "BeforeFaces"))
    \/ ~WellFormedList(FieldBody(text, "AfterFaces"))

\* C7: when the text of the BeforeFaces or AfterFaces field is not of the
\* bracketed, comma-separated integer form, the QTextStream constructor
\* ends with a malformed-serialization error and builds no face.
C7_MalformedListReported ==
    (loaded # NotLoaded /\ loaded.via = "text" /\ Malformed(stream)) =>
        loaded.status = "MalformedSerializationError"

-----------------------------------------------------------------------------
(* Properties of the two-phase load *)

\* C11: two-phase load.  After phase 1 (either stream constructor) the face
\* has its identities in the temporary lists and empty before and after
\* faces, whatever cells were constructed before it; after read2ndPass, run
\* once every cell is constructed, the before faces are exactly the cells of
\* the temporary before identities and the after faces those of the
\* temporary after identities, whatever cells were constructed before the
\* face.
C11_TwoPhaseLoad ==
    /\ loaded.status = "constructed" =>
         /\ loaded.beforeFaces = {} /\ loaded.afterFaces = {}
         /\ IsEnumerationOf(loaded.tempBeforeFaces, beforeFaces_)
         /\ IsEnumerationOf(loaded.tempAfterFaces, afterFaces_)
    /\ loaded.status \notin {"none", "constructed"} =>
         /\ loaded.status = "loaded"
         /\ registry = CellIds
         /\ loaded.beforeFaces = Range(loaded.tempBeforeFaces)
         /\ loaded.afterFaces = Range(loaded.tempAfterFaces)
         /\ loaded.beforeFaces \cup loaded.afterFaces \subseteq KeyFaceIds \cap registry

\* C11 witness: the face was constructed after its after face and before its
\* before face, and read2ndPass has resolved both.
C11_Witness ==
    /\ loaded.status = "loaded"
    /\ loaded.beforeFaces # {} /\ loaded.afterFaces # {}
    /\ loaded.beforeFaces \cap last.cellsBuilt = {}
    /\ loaded.afterFaces \subseteq last.cellsBuilt

-----------------------------------------------------------------------------
(* Properties of the boundary update *)

\* C12: the edge-list boundary update does nothing when the time of the
\* replaced key edge is not inside the existence interval of the face: the
\* cycles, the before faces and the after faces are as before the call and
\* replaceEdges is called on no cycle.  When the face exists at that time,
\* replaceEdges(oldEdge, newEdges) is called on every cycle, in cycle order,
\* and each cycle is what replaceEdges makes of it.
C12_EdgeUpdateShortCircuit ==
    last.op = "updateBoundary_KeyEdge" =>
        LET oldEdge == last.arg[1]
            newEdges == last.arg[2]
            pre == last.pre
        IN  /\ ~exists(KeyEdgeTime[oldEdge]) =>
                 /\ cycles_ = pre.cycles
                 /\ beforeFaces_ = pre.beforeFaces
                 /\ afterFaces_ = pre.afterFaces
                 /\ last.calls = << >>
            /\ exists(KeyEdgeTime[oldEdge]) =>
                 /\ Len(cycles_) = Len(pre.cycles)
                 /\ last.calls = [i \in 1..Len(pre.cycles) |-> i]
                 /\ \A i \in DOMAIN pre.cycles :
                      cycles_[i] = replaceEdges(pre.cycles[i], oldEdge, newEdges)

\* C12 witness: the key edge at the start time of the face, which a cycle of
\* the face refers to, was replaced by two edges and the face is as before.
C12_Witness ==
    /\ last.op = "updateBoundary_KeyEdge"
    /\ last.arg[1] = 3 /\ Len(last.arg[2]) = 2
    /\ \E i \in DOMAIN last.pre.cycles : last.pre.cycles[i] = << Halfedge(3, TRUE) >>
    /\ cycles_ = last.pre.cycles
    /\ beforeFaces_ # {}

HalfedgeStart(h) == IF h.side THEN StartVertex[h.edge] ELSE EndVertex[h.edge]
HalfedgeEnd(h) == IF h.side THEN EndVertex[h.edge] ELSE StartVertex[h.edge]

\* Every entry of the cycle ends where the next starts, the last where the
\* first starts
Closed(c) ==
    /\ c # << >>
    /\ \A k \in DOMAIN c : HalfedgeEnd(c[k]) = HalfedgeStart(c[(k % Len(c)) + 1])

\* newEdges is a chain from the start vertex of oldEdge to its end vertex
ChainOf(oldEdge, newEdges) ==
    /\ newEdges # << >>
    /\ StartVertex[newEdges[1]] = StartVertex[oldEdge]
    /\ EndVertex[newEdges[Len(newEdges)]] = EndVertex[oldEdge]
    /\ \A j \in 1..(Len(newEdges) - 1) : EndVertex[newEdges[j]] = StartVertex[newEdges[j + 1]]

\* The number of entries of the spliced cycle that come before what entry k
\* of c has become
Offset(c, oldEdge, n, k) ==
    (k - 1) + (n - 1) * Cardinality({j \in 1..(k - 1) : c[j].edge = oldEdge})

\* r is c with every forward occurrence of oldEdge replaced in place by the
\* chain in order and forward, every reversed occurrence by the chain in
\* reverse order and reversed, and every other entry kept
SplicedFrom(r, c, oldEdge, newEdges) ==
    LET n == Len(newEdges) IN
    /\ Len(r) = Offset(c, oldEdge, n, Len(c) + 1)
    /\ \A k \in DOMAIN c :
         LET o == Offset(c, oldEdge, n, k) IN
         IF c[k].edge # oldEdge THEN r[o + 1] = c[k]
         ELSE \A j \in 1..n :
                r[o + j] = IF c[k].side THEN Halfedge(newEdges[j], TRUE)
                           ELSE Halfedge(newEdges[n + 1 - j], FALSE)

\* C13: edge-splice invariant.  After the replacement of oldEdge by a chain
\* of new edges with the start and end vertex of oldEdge, every cycle that
\* was closed has each forward occurrence of oldEdge replaced in place by
\* the chain in order and forward, each reversed occurrence by the chain in
\* reverse order with every direction flipped, no other entry changed, and
\* is still closed.
C13_EdgeSplice ==
    (/\ last.op = "updateBoundary_KeyEdge"
     /\ exists(KeyEdgeTime[last.arg[1]])
     /\ ChainOf(last.arg[1], last.arg[2])) =>
        \A i \in DOMAIN last.pre.cycles :
            Closed(last.pre.cycles[i]) =>
                /\ SplicedFrom(cycles_[i], last.pre.cycles[i], last.arg[1], last.arg[2])
                /\ Closed(cycles_[i])

\* C13 witness: a closed cycle that goes along edge 1 and back has had edge
\* 1 replaced by the chain of edges 7 and 8.
C13_Witness ==
    /\ last.op = "updateBoundary_KeyEdge"
    /\ last.arg = << 1, << 7, 8 >> >>
    /\ \E i \in DOMAIN last.pre.cycles :
         /\ last.pre.cycles[i] = << Halfedge(1, TRUE), Halfedge(1, FALSE) >>
         /\ cycles_[i] = << Halfedge(7, TRUE), Halfedge(8, TRUE),
                            Halfedge(8, FALSE), Halfedge(7, FALSE) >>

-----------------------------------------------------------------------------
(* Properties of repeated triangulation *)

\* C14: idempotence of triangulation.  A call of triangulate_(time, out)
\* that directly follows a call with the same time leaves in out the
\* triangle list the first call left there, and a call of triangulate_
\* changes neither the cycles, nor the before and after faces, nor a star.
C14_TriangulateIdempotent ==
    last.op = "triangulate_" =>
        /\ Self = last.pre
        /\ (last.prevOp = "triangulate_" /\ last.prevArg = last.arg) => out = last.outBefore

\* C14 witness: the second of two calls at a time at which the face exists
\* has produced triangles for a face with two cycles.
C14_Witness ==
    /\ last.op = "triangulate_"
    /\ last.prevOp = "triangulate_" /\ last.prevArg = last.arg
    /\ exists(last.arg[1])
    /\ Len(cycles_) = 2
    /\ out # << >> /\ out = last.outBefore

-----------------------------------------------------------------------------
(* Properties of the boundary queries and of the cycle list *)

\* C15: in every reachable state a cell is in beforeCells() exactly when it
\* is a before face or in beforeCells() of some cycle, and in afterCells()
\* exactly when it is an after face or in afterCells() of some cycle; a face
\* with no cycle or only placeholder cycles returns exactly its before
\* faces and its after faces.
C15_TemporalBoundaryUnion ==
    /\ \A c \in CellIds \cup {Null} :
         /\ c \in beforeCells(Self) <=>
              (c \in beforeFaces_ \/ \E i \in DOMAIN cycles_ : c \in CycleBeforeCells(cycles_[i]))
         /\ c \in afterCells(Self) <=>
              (c \in afterFaces_ \/ \E i \in DOMAIN cycles_ : c \in CycleAfterCells(cycles_[i]))
    /\ beforeCells(Self) \cup afterCells(Self) \subseteq CellIds
    /\ (\A i \in DOMAIN cycles_ : cycles_[i] = EmptyCycle) =>
         /\ beforeCells(Self) = beforeFaces_
         /\ afterCells(Self) = afterFaces_

\* C15 witness: a face with a placeholder cycle and a cycle over the
\* inbetween edge, one before face and another after face, after a mutation
C15_Witness ==
    /\ last # Idle /\ last.op # "InbetweenFace"
    /\ Len(cycles_) = 2
    /\ cycles_[1] = EmptyCycle /\ cycles_[2] = << Halfedge(4, TRUE) >>
    /\ beforeFaces_ = {6} /\ afterFaces_ = {12}
    /\ beforeCells(Self) = {3, 6}
    /\ afterCells(Self) = {5, 12}

\* C16: cycle order is preserved.  addAnimatedCycle(cycle) increases
\* numAnimatedCycles by one, puts cycle at the last index and leaves the
\* earlier cycles as they were; setCycle(i, cycle) changes index i only and
\* keeps the count; removeCycle(i) decreases the count by one, removes the
\* cycle at index i and keeps the others in their order; none of the three
\* changes the before or the after faces.
C16_CycleOrderPreserved ==
    LET pre == last.pre
        n == numAnimatedCycles(pre)
    IN
    /\ last.op = "addAnimatedCycleWith" =>
         /\ numAnimatedCycles(Self) = n + 1
         /\ animatedCycle(Self, n) = last.arg[1]
         /\ \A j \in 0..(n - 1) : animatedCycle(Self, j) = animatedCycle(pre, j)
    /\ last.op = "setCycle" =>
         /\ numAnimatedCycles(Self) = n
         /\ animatedCycle(Self, last.arg[1] - 1) = last.arg[2]
         /\ \A j \in 0..(n - 1) :
              j # last.arg[1] - 1 => animatedCycle(Self, j) = animatedCycle(pre, j)
    /\ last.op = "removeCycle" =>
         /\ numAnimatedCycles(Self) = n - 1
         /\ \A j \in 0..(n - 2) :
              animatedCycle(Self, j) =
                 IF j < last.arg[1] - 1 THEN animatedCycle(pre, j) ELSE animatedCycle(pre, j + 1)
    /\ last.op \in {"addAnimatedCycleWith", "setCycle", "removeCycle"} =>
         /\ beforeFaces_ = pre.beforeFaces
         /\ afterFaces_ = pre.afterFaces

\* C16 witness: removeCycle has removed the last of two different cycles
\* of a face with a before face, and the first is still there.
C16_Witness ==
    /\ last # Idle /\ last.op = "removeCycle"
    /\ Len(last.pre.cycles) = 2 /\ last.arg[1] = 2
    /\ last.pre.cycles[1] # last.pre.cycles[2]
    /\ cycles_ = << last.pre.cycles[1] >>
    /\ beforeFaces_ # {}

-----------------------------------------------------------------------------
(* Properties of the text constructor on a damaged text *)

\* C17: the QTextStream constructor terminates on every finite input: the
\* loops that scan a list until its brackets are closed and the loops that
\* read the identities all finish, also when the stream ends before the
\* closing bracket.
C17_TextConstructorTerminates ==
    loaded # NotLoaded => loaded.status # "hang"

-----------------------------------------------------------------------------
(* Properties of the copy *)

\* C18: clone() returns a face with the cycles, the before faces and the
\* after faces of the original, leaves the original and its stars as they
\* were, and puts the clone in the star of no cell, so that a clone with a
\* boundary refers to cells whose stars do not hold it.
C18_CloneUnregistered ==
    last.op = "clone" =>
        /\ last.ret.cycles = cycles_
        /\ last.ret.beforeFaces = beforeFaces_
        /\ last.ret.afterFaces = afterFaces_
        /\ Self = last.pre
        /\ last.ret.spatialStar = {}
        /\ last.ret.temporalStarBefore = {}
        /\ last.ret.temporalStarAfter = {}
        /\ \A c \in spatialBoundary(last.ret) \cup beforeCells(last.ret) \cup afterCells(last.ret) :
             c \notin last.ret.spatialStar \cup last.ret.temporalStarBefore
                                          \cup last.ret.temporalStarAfter

\* C18 witness: a face with a cycle, a before face and an after face, all
\* of which hold it in their stars, has been cloned.
C18_Witness ==
    /\ last.op = "clone"
    /\ last.ret.cycles # << >> /\ spatialBoundary(last.ret) # {}
    /\ last.ret.beforeFaces # {} /\ last.ret.afterFaces # {}
    /\ spatialStar = spatialBoundary(Self)
    /\ beforeFaces_ \subseteq temporalStarAfter
    /\ afterFaces_ \subseteq temporalStarBefore

\* The identities of a set of cells
Identities(cells) == {cellId(cell) : cell \in cells}

\* remapPointers has left the sets as the claim says
IdentitiesPreserved ==
    /\ last.status = "done"
    /\ beforeFaces_ = Remapped(last.pre.beforeFaces, last.arg[1])
    /\ afterFaces_ = Remapped(last.pre.afterFaces, last.arg[1])
    /\ Identities(beforeFaces_) = Identities(last.pre.beforeFaces)
    /\ Identities(afterFaces_) = Identities(last.pre.afterFaces)
    /\ Cardinality(beforeFaces_) = Cardinality(last.pre.beforeFaces)
    /\ Cardinality(afterFaces_) = Cardinality(last.pre.afterFaces)
    /\ InNewVAC(beforeFaces_ \cup afterFaces_, last.arg[1])
    /\ Null \notin beforeFaces_ \cup afterFaces_

====
